---- MODULE Spec2Model ----
(***************************************************************************)
(* Representation-similarity measures of                                   *)
(* src/representation_similarity/Demo.ipynb: linear and RBF Gram matrices, *)
(* Gram centering, CKA from Gram matrices, linear CKA in feature space and *)
(* the mean squared CCA correlation.                                       *)
(*                                                                         *)
(* The functions are pure.  A state of the model is one call: the function *)
(* called with its arguments (call), whether it has run (pc), what it     *)
(* returned or raised (ret) and the numeric steps it completed (steps).    *)
(*                                                                         *)
(* Arithmetic is exact.  A real number is a reduced fraction <<n, d>>,     *)
(* d > 0; the IEEE specials a division by zero produces in numpy are the   *)
(* fractions with d = 0: <<1, 0>> is +inf, <<-1, 0>> is -inf, <<0, 0>> is  *)
(* nan.  A matrix is a sequence of rows.                                   *)
(***************************************************************************)
EXTENDS Integers, Sequences, FiniteSets, TLC

VARIABLES call, pc, ret, steps

vars == <<call, pc, ret, steps>>

----------------------------------------------------------------------------
(* Extended rational arithmetic                                            *)

Abs(a) == IF a < 0 THEN -a ELSE a

Sgn(a) == IF a < 0 THEN -1 ELSE IF a > 0 THEN 1 ELSE 0

RECURSIVE Gcd(_, _)
Gcd(a, b) == IF b = 0 THEN a ELSE Gcd(b, a % b)

\* The value of the single element of S.  An operator that reads an operand
\* several times takes it through Once({e(x) : x \in {operand}}), which
\* computes the operand one time.
Once(S) == CHOOSE r \in S : TRUE

QNorm(n, d) ==
  Once({IF y = 0 THEN <<Sgn(x), 0>>
        ELSE Once({<<(s * x) \div g, (s * y) \div g>>
                   : g \in {Gcd(Abs(x), Abs(y))}, s \in {IF y < 0 THEN -1 ELSE 1}})
        : x \in {n}, y \in {d}})

Q(i) == <<i, 1>>

Zero == <<0, 1>>

NaN == <<0, 0>>

IsFinite(a) == a[2] # 0

IsNaN(a) == a = NaN

\* inf + inf = inf, inf - inf = nan; finite terms go over the least common denominator
QAdd(a, b) ==
  Once({IF x[2] = 0 /\ y[2] = 0
        THEN (IF x[1] = y[1] THEN x ELSE NaN)
        ELSE IF x[2] = 0 THEN x
        ELSE IF y[2] = 0 THEN y
        ELSE Once({QNorm(x[1] * (y[2] \div g) + y[1] * (x[2] \div g), (x[2] \div g) * y[2])
                   : g \in {Gcd(x[2], y[2])}})
        : x \in {a}, y \in {b}})

QNeg(a) == Once({<<-x[1], x[2]>> : x \in {a}})

QSub(a, b) == QAdd(a, QNeg(b))

\* inf * 0 = nan; finite factors are reduced crosswise before they are multiplied
QMul(a, b) ==
  Once({IF x[2] = 0 \/ y[2] = 0
        THEN QNorm(Sgn(x[1]) * Sgn(y[1]), 0)
        ELSE Once({<<(x[1] \div g) * (y[1] \div h), (x[2] \div h) * (y[2] \div g)>>
                   : g \in {Gcd(Abs(x[1]), y[2])}, h \in {Gcd(Abs(y[1]), x[2])}})
        : x \in {a}, y \in {b}})

QInv(a) == Once({IF x[1] < 0 THEN <<-x[2], -x[1]>> ELSE <<x[2], x[1]>> : x \in {a}})

QDiv(a, b) == QMul(a, QInv(b))

QAbs(a) == <<Abs(a[1]), a[2]>>

\* a <= b, false when either side is nan (as every IEEE comparison is)
QLe(a, b) ==
  /\ ~IsNaN(a)
  /\ ~IsNaN(b)
  /\ IF a[2] = 0 THEN a[1] = -1 \/ a = b
     ELSE IF b[2] = 0 THEN b[1] = 1
     ELSE a[1] * b[2] <= b[1] * a[2]

QPos(a) == a[1] > 0

QIsZero(a) == a = Zero

RECURSIVE QSum(_)
QSum(s) == IF s = <<>> THEN Zero ELSE QAdd(Head(s), QSum(Tail(s)))

----------------------------------------------------------------------------
(* Dense matrices and the numpy primitives the notebook uses               *)

\* An explicit tuple with the elements of s, each computed once.
Vec(s) == s \o <<>>

Rows(m) == Len(m)

Cols(m) == Len(m[1])

ToQ(m) == Vec([i \in 1..Rows(m) |-> Vec([j \in 1..Cols(m) |-> Q(m[i][j])])])

Transpose(m) == Vec([j \in 1..Cols(m) |-> Vec([i \in 1..Rows(m) |-> m[i][j]])])

\* a.dot(b) for 1-D arrays of equal length
Dot(u, v) == QSum(Vec([k \in 1..Len(u) |-> QMul(u[k], v[k])]))

\* a.dot(b) for 2-D arrays with Cols(a) = Rows(b)
MatMul(a, b) ==
  Vec([i \in 1..Rows(a) |->
     Vec([j \in 1..Cols(b) |-> QSum(Vec([k \in 1..Cols(a) |-> QMul(a[i][k], b[k][j])]))])])

\* m.ravel()
RECURSIVE Ravel(_)
Ravel(m) == IF m = <<>> THEN <<>> ELSE Head(m) \o Ravel(Tail(m))

\* np.sum(m, 0): the column sums
ColSums(m) == Vec([j \in 1..Cols(m) |-> QSum(Vec([i \in 1..Rows(m) |-> m[i][j]]))])

\* np.linalg.norm(m) ** 2: the squared Frobenius norm
SqNorm(m) == LET v == Ravel(m) IN Dot(v, v)

\* np.fill_diagonal(m, 0): for a 2-D array the entries (i, i), i <= min(rows, cols)
FillDiagonal(m) ==
  Vec([i \in 1..Rows(m) |->
     Vec([j \in 1..Cols(m) |-> IF i = j THEN Zero ELSE m[i][j]])])

\* numpy broadcasting of a 2-D array to a larger shape: an axis of length 1 repeats
Bc(m, i, j) == m[IF Rows(m) = 1 THEN 1 ELSE i][IF Cols(m) = 1 THEN 1 ELSE j]

Max(a, b) == IF a > b THEN a ELSE b

Min(a, b) == IF a < b THEN a ELSE b

Broadcastable(a, b) ==
  /\ Rows(a) = Rows(b) \/ Rows(a) = 1 \/ Rows(b) = 1
  /\ Cols(a) = Cols(b) \/ Cols(a) = 1 \/ Cols(b) = 1

\* np.allclose's default tolerances: atol = 1e-8, rtol = 1e-5
AtolInv == 100000000

RtolInv == 100000

\* one entry of np.isclose(a, b): equal entries are close (nan is close to
\* nothing), an infinite entry is close only to itself, and otherwise
\* |a - b| <= atol + rtol * |b|, that is |a - b| * 1e8 <= 1 + 1e3 * |b|
IsClose(a, b) ==
  /\ ~IsNaN(a)
  /\ ~IsNaN(b)
  /\ \/ a = b
     \/ /\ IsFinite(a)
        /\ IsFinite(b)
        /\ QLe(QMul(QAbs(QSub(a, b)), Q(AtolInv)),
               QAdd(Q(1), QMul(Q(AtolInv \div RtolInv), QAbs(b))))

\* np.allclose(a, a): the array compared with itself, its transpose forgotten
allclose_without_transpose(a, b) ==
  \A i \in 1..Rows(a) : \A j \in 1..Cols(a) : IsClose(a[i][j], a[i][j])

\* np.allclose(a, b): every entry of the broadcast arrays is close
np_allclose(a, b) ==
  \A i \in 1..Max(Rows(a), Rows(b)) : \A j \in 1..Max(Cols(a), Cols(b)) :
     IsClose(Bc(a, i, j), Bc(b, i, j))

----------------------------------------------------------------------------
(* Outcomes of a call                                                      *)

Return(v, st) == [kind |-> "return", error |-> "", value |-> v, steps |-> st]

Raise(e, st) == [kind |-> "raise", error |-> e, value |-> <<>>, steps |-> st]

NotSymmetric == "ValueError: Input must be a symmetric matrix."

ShapeError == "ValueError: shapes not aligned or not broadcastable"

ZeroDivision == "ZeroDivisionError: float division by zero"

\* A float score scaled_hsic / (normalization_x * normalization_y) whose two
\* normalizations are square roots: kept as the numerator and the two radicands.
Score(num, nx2, ny2) == [num |-> num, nx2 |-> nx2, ny2 |-> ny2]

\* the score is a finite number: finite numerator, both radicands finite and positive
Defined(s) ==
  /\ IsFinite(s.num) /\ IsFinite(s.nx2) /\ IsFinite(s.ny2)
  /\ QPos(s.nx2) /\ QPos(s.ny2)

\* two defined scores are the same real number:
\* n1 / sqrt(a1 b1) = n2 / sqrt(a2 b2)  iff  same sign and n1^2 a2 b2 = n2^2 a1 b1
SameScore(s, t) ==
  /\ Sgn(s.num[1]) = Sgn(t.num[1])
  /\ \/ s.num[1] = 0
     \/ LET r == QDiv(s.num, t.num)
        IN  QMul(QMul(r, r), QMul(QDiv(t.nx2, s.nx2), QDiv(t.ny2, s.ny2))) = Q(1)

----------------------------------------------------------------------------
(* Kernel construction                                                     *)

gram_linear(x) == MatMul(x, Transpose(x))

\* how many entries of v are below a, and how many are at most a
CountLt(v, a) == Cardinality({k \in 1..Len(v) : v[k] # a /\ QLe(v[k], a)})

CountLe(v, a) == Cardinality({k \in 1..Len(v) : QLe(v[k], a)})

\* the k-th smallest entry of a vector of finite numbers
KthSmallest(v, k) ==
  LET i == CHOOSE i \in 1..Len(v) : CountLt(v, v[i]) < k /\ k <= CountLe(v, v[i])
  IN  v[i]

\* np.median(m) over the flattened array: the middle entry of the sorted
\* entries, or the mean of the two middle entries when their number is even
np_median(m) ==
  LET v == Ravel(m)
      n == Len(v)
  IN  IF n % 2 = 1 THEN KthSmallest(v, (n + 1) \div 2)
      ELSE QDiv(QAdd(KthSmallest(v, n \div 2), KthSmallest(v, n \div 2 + 1)), Q(2))

\* sq_distances = -2 * dot_products + sq_norms[:, None] + sq_norms[None, :]
SqDistances(x) ==
  LET dot_products == MatMul(x, Transpose(x))
  IN  Vec([i \in 1..Rows(x) |->
        Vec([j \in 1..Rows(x) |->
           QAdd(QAdd(QMul(Q(-2), dot_products[i][j]), dot_products[i][i]),
                dot_products[j][j])])])

\* The Gram matrix np.exp(e) is returned as the matrix e of its exponents:
\* an exponent -inf is the entry 0, an exponent nan is the entry nan.
gram_rbf(x, threshold) ==
  LET sq_distances == SqDistances(x)
      sq_median_distance == np_median(sq_distances)
      bandwidth == QMul(QMul(Q(2), QMul(threshold, threshold)), sq_median_distance)
  IN  Return([exp_of |->
               Vec([i \in 1..Rows(x) |->
                  Vec([j \in 1..Rows(x) |->
                     QDiv(QNeg(sq_distances[i][j]), bandwidth)])])],
             <<"dot", "median", "exp">>)

----------------------------------------------------------------------------
(* Gram centering                                                          *)

\* gram -= means[:, None] alone: the means are taken off the rows only
SubtractMeansFromRowsOnly(gram, means) ==
  Vec([i \in 1..Rows(gram) |->
     Vec([j \in 1..Cols(gram) |->
        QSub(gram[i][j], means[IF Len(means) = 1 THEN 1 ELSE i])])])

\* gram -= means[:, None]; gram -= means[None, :]
SubtractMeans(gram, means) ==
  Vec([i \in 1..Rows(gram) |->
     Vec([j \in 1..Cols(gram) |->
        QSub(QSub(gram[i][j], means[IF Len(means) = 1 THEN 1 ELSE i]), means[j])])])

center_gram(gram, unbiased) ==
  LET r == Rows(gram)
      c == Cols(gram)
      n == r
      g0 == IF unbiased THEN FillDiagonal(gram) ELSE gram
      sums == ColSums(g0)
      m0 == IF unbiased
            THEN Vec([j \in 1..c |-> QDiv(sums[j], Q(n - 2))])
            ELSE Vec([j \in 1..c |-> QDiv(sums[j], Q(r))])
      shift == IF unbiased
               THEN QDiv(QSum(m0), Q(2 * (n - 1)))
               ELSE QDiv(QDiv(QSum(m0), Q(c)), Q(2))
      means == Vec([j \in 1..c |-> QSub(m0[j], shift)])
      g1 == SubtractMeans(g0, means)
  IN  IF ~Broadcastable(gram, Transpose(gram))
      THEN Raise(ShapeError, <<>>)
      ELSE IF ~np_allclose(gram, Transpose(gram))
      THEN Raise(NotSymmetric, <<"allclose">>)
      ELSE IF c # r /\ c # 1
      THEN Raise(ShapeError, <<"allclose", "mean">>)
      ELSE Return(IF unbiased THEN FillDiagonal(g1) ELSE g1,
                  <<"allclose", "mean", "center">>)

----------------------------------------------------------------------------
(* CKA from Gram matrices                                                  *)

\* cka whose normalization of gram_x is the norm of gram_x before centering
cka_normalized_before_centering(gram_x, gram_y, debiased) ==
  LET cx == center_gram(gram_x, debiased)
      cy == center_gram(gram_y, debiased)
      vx == Ravel(cx.value)
      vy == Ravel(cy.value)
      ux == Ravel(gram_x)
  IN  IF cx.kind = "raise" THEN cx
      ELSE IF cy.kind = "raise" THEN Raise(cy.error, cx.steps \o cy.steps)
      ELSE IF Len(vx) # Len(vy) THEN Raise(ShapeError, cx.steps \o cy.steps)
      ELSE Return(Score(Dot(vx, vy), Dot(ux, ux), Dot(vy, vy)),
                  cx.steps \o cy.steps \o <<"dot", "norm", "norm">>)

cka(gram_x, gram_y, debiased) ==
  LET cx == center_gram(gram_x, debiased)
      cy == center_gram(gram_y, debiased)
      vx == Ravel(cx.value)
      vy == Ravel(cy.value)
  IN  IF cx.kind = "raise" THEN cx
      ELSE IF cy.kind = "raise" THEN Raise(cy.error, cx.steps \o cy.steps)
      ELSE IF Len(vx) # Len(vy) THEN Raise(ShapeError, cx.steps \o cy.steps)
      ELSE Return(Score(Dot(vx, vy), Dot(vx, vx), Dot(vy, vy)),
                  cx.steps \o cy.steps \o <<"dot", "norm", "norm">>)

----------------------------------------------------------------------------
(* Linear CKA in feature space                                             *)

\* the helper with its last term subtracted instead of added
_debiased_helper_subtracting_norms(xty, sum_squared_rows_x, sum_squared_rows_y, squared_norm_x, squared_norm_y, n) ==
  QSub(QSub(xty, QMul(QDiv(Q(n), Q(n - 2)),
                      Dot(sum_squared_rows_x, sum_squared_rows_y))),
       QDiv(QMul(squared_norm_x, squared_norm_y), Q((n - 1) * (n - 2))))

\* the helper with n / (n - 1) in place of n / (n - 2)
_debiased_helper_with_biased_factor(xty, sum_squared_rows_x, sum_squared_rows_y, squared_norm_x, squared_norm_y, n) ==
  QAdd(QSub(xty, QMul(QDiv(Q(n), Q(n - 1)),
                      Dot(sum_squared_rows_x, sum_squared_rows_y))),
       QDiv(QMul(squared_norm_x, squared_norm_y), Q((n - 1) * (n - 2))))

_debiased_dot_product_similarity_helper(xty, sum_squared_rows_x, sum_squared_rows_y, squared_norm_x, squared_norm_y, n) ==
  QAdd(QSub(xty, QMul(QDiv(Q(n), Q(n - 2)),
                      Dot(sum_squared_rows_x, sum_squared_rows_y))),
       QDiv(QMul(squared_norm_x, squared_norm_y), Q((n - 1) * (n - 2))))

\* features - np.mean(features): the mean of all entries taken off, the axis forgotten
CenterByGrandMean(f) ==
  LET mean == QDiv(QSum(Ravel(f)), Q(Rows(f) * Cols(f)))
  IN  Vec([i \in 1..Rows(f) |-> Vec([j \in 1..Cols(f) |-> QSub(f[i][j], mean)])])

\* features - np.mean(features, 0, keepdims=True)
CenterColumns(f) ==
  LET sums == ColSums(f)
      mean == Vec([j \in 1..Cols(f) |-> QDiv(sums[j], Q(Rows(f)))])
  IN  Vec([i \in 1..Rows(f) |-> Vec([j \in 1..Cols(f) |-> QSub(f[i][j], mean[j])])])

\* np.einsum('ij,ij->i', f, f)
SumSquaredRows(f) == Vec([i \in 1..Rows(f) |-> Dot(f[i], f[i])])

\* np.linalg.norm(features): the norm of the features, their product forgotten
SqNormOfFeatures(f) == SqNorm(f)

\* np.linalg.norm(features.T.dot(features)) ** 2
SqNormalization(f) == SqNorm(MatMul(Transpose(f), f))

feature_space_linear_cka(features_x, features_y, debiased) ==
  LET fx == CenterColumns(features_x)
      fy == CenterColumns(features_y)
      n == Rows(fx)
      dps == SqNorm(MatMul(Transpose(fx), fy))
      nx2 == SqNormalization(fx)
      ny2 == SqNormalization(fy)
      ssx == SumSquaredRows(fx)
      ssy == SumSquaredRows(fy)
      sqx == QSum(ssx)
      sqy == QSum(ssy)
  IN  IF Rows(fx) # Rows(fy)
      THEN Raise(ShapeError, <<"mean", "mean">>)
      ELSE IF ~debiased
      THEN Return(Score(dps, nx2, ny2), <<"mean", "mean", "dot", "dot", "dot">>)
      ELSE IF n = 2
      THEN Raise(ZeroDivision, <<"mean", "mean", "dot", "dot", "dot">>)
      ELSE Return(
             Score(_debiased_dot_product_similarity_helper(dps, ssx, ssy, sqx, sqy, n),
                   _debiased_dot_product_similarity_helper(nx2, ssx, ssx, sqx, sqx, n),
                   _debiased_dot_product_similarity_helper(ny2, ssy, ssy, sqy, sqy, n)),
             <<"mean", "mean", "dot", "dot", "dot", "debias">>)

----------------------------------------------------------------------------
(* CCA                                                                     *)

\* column j of m
Column(m, j) == Vec([i \in 1..Rows(m) |-> m[i][j]])

\* u - sum of the projections of u on the vectors of basis (zero vectors skipped)
RECURSIVE Residual(_, _)
Residual(u, basis) ==
  IF basis = <<>> THEN u
  ELSE LET b == Head(basis)
           r == Residual(u, Tail(basis))
           bb == Dot(b, b)
           f == IF QIsZero(bb) THEN Zero ELSE QDiv(Dot(u, b), bb)
       IN  Vec([i \in 1..Len(u) |-> QSub(r[i], QMul(f, b[i]))])

\* np.linalg.qr(m)[0] in reduced mode, for m of full column rank: column k of
\* Q is, up to its sign, the k-th column of m made orthogonal to the earlier
\* columns and scaled to unit length.  The columns are returned before the
\* scaling, which takes a square root: q[k] = dirs[k] / sqrt(Dot(dirs[k], dirs[k])).
RECURSIVE QrDirs(_, _)
QrDirs(m, k) ==
  IF k = 0 THEN <<>>
  ELSE LET prev == QrDirs(m, k - 1)
       IN  Append(prev, Residual(Column(m, k), prev))

\* the columns of m scaled to unit length but not made orthogonal to each other
qr_without_orthogonalization(m) == Vec([k \in 1..Min(Rows(m), Cols(m)) |-> Column(m, k)])

qr(m) == QrDirs(m, Min(Rows(m), Cols(m)))

\* the columns of m are linearly independent
FullColumnRank(m) ==
  /\ Rows(m) >= Cols(m)
  /\ LET dirs == qr(m)
     IN  \A k \in 1..Cols(m) : ~QIsZero(Dot(dirs[k], dirs[k]))

\* np.linalg.norm(qx.T.dot(qy)) ** 2: the sum of the squared inner products of
\* the unit columns, (u . v)^2 / ((u . u) (v . v))
SqNormOfProduct(qx, qy) ==
  QSum(Vec([i \in 1..Len(qx) |->
     QSum(Vec([j \in 1..Len(qy) |->
        QDiv(QMul(Dot(qx[i], qy[j]), Dot(qx[i], qy[j])),
             QMul(Dot(qx[i], qx[i]), Dot(qy[j], qy[j])))]))]))

cca(features_x, features_y) ==
  LET qx == qr(features_x)
      qy == qr(features_y)
  IN  IF Rows(features_x) # Rows(features_y)
      THEN Raise(ShapeError, <<"qr", "qr">>)
      ELSE Return(QDiv(SqNormOfProduct(qx, qy),
                       Q(Min(Cols(features_x), Cols(features_y)))),
                  <<"qr", "qr", "dot", "norm">>)

----------------------------------------------------------------------------
(* Inputs                                                                  *)

\* An explicit set with the elements of S, each computed once.
Enum(S) == S \cup {}

\* the vectors of k naturals whose sum is at most w
RECURSIVE NatVectors(_, _)
NatVectors(k, w) ==
  IF k = 0 THEN {<<>>}
  ELSE Enum(UNION {{<<v>> \o t : t \in NatVectors(k - 1, w - v)} : v \in 0..w})

\* the vectors of k integers whose absolute values sum to at most w
RECURSIVE IntVectors(_, _)
IntVectors(k, w) ==
  IF k = 0 THEN {<<>>}
  ELSE Enum(UNION {{<<v>> \o t : t \in IntVectors(k - 1, w - Abs(v))} : v \in (-w)..w})

\* the r x c matrix whose rows are the consecutive stretches of v, from offset o
Reshape(v, o, r, c) == Vec([i \in 1..r |-> Vec([j \in 1..c |-> v[o + (i - 1) * c + j]])])

\* the symmetric n x n matrix whose upper triangle, row by row, is u
SymFromTriangle(u, n) ==
  LET idx(i, j) == (i - 1) * n - ((i - 1) * (i - 2)) \div 2 + (j - i + 1)
  IN  Vec([i \in 1..n |-> Vec([j \in 1..n |-> IF i <= j THEN u[idx(i, j)] ELSE u[idx(j, i)]])])

\* some entry of the square matrix g is not close to its mirror entry
NotSymmetricWithinTolerance(g) ==
  \E i \in 1..Rows(g), j \in 1..Rows(g) : ~IsClose(Q(g[i][j]), Q(g[j][i]))

IsSymmetric(g) == \A i \in 1..Rows(g), j \in 1..Rows(g) : g[i][j] = g[j][i]

IsSquare(g) == Rows(g) = Cols(g)

----------------------------------------------------------------------------
(* Calls of center_gram and cka on Gram matrices                           *)

GramMaxN == 4

SquareMaxN == 3

GramMaxWeight == 2

PairMaxN == 2

PairMaxWeight == 2

\* the symmetric n x n matrices and, up to SquareMaxN, every n x n matrix
GramInputs(n) ==
  {SymFromTriangle(u, n) : u \in IntVectors((n * (n + 1)) \div 2, GramMaxWeight)}
  \cup (IF n <= SquareMaxN
        THEN {Reshape(v, 0, n, n) : v \in IntVectors(n * n, GramMaxWeight)}
        ELSE {})

InitCenterGram ==
  \E n \in 1..GramMaxN, unbiased \in BOOLEAN : \E g \in GramInputs(n) :
    /\ call = [fn |-> "center_gram", gram |-> g, unbiased |-> unbiased]
    /\ pc = "ready"
    /\ ret = <<>>
    /\ steps = <<>>

\* cka(G, G, debiased)
InitCkaSelf ==
  \E n \in 1..GramMaxN, debiased \in BOOLEAN : \E g \in GramInputs(n) :
    /\ call = [fn |-> "cka", gram_x |-> g, gram_y |-> g, debiased |-> debiased]
    /\ pc = "ready"
    /\ ret = <<>>
    /\ steps = <<>>

\* cka on two square matrices of one size, each symmetric or not
InitCkaPair ==
  \E n \in 1..PairMaxN, debiased \in BOOLEAN :
    \E v \in IntVectors(2 * n * n, PairMaxWeight) :
      /\ call = [fn |-> "cka", gram_x |-> Reshape(v, 0, n, n),
                 gram_y |-> Reshape(v, n * n, n, n), debiased |-> debiased]
      /\ pc = "ready"
      /\ ret = <<>>
      /\ steps = <<>>

InitGram == InitCenterGram \/ InitCkaSelf \/ InitCkaPair

CallCenterGram ==
  /\ call.fn = "center_gram"
  /\ pc = "ready"
  /\ pc' = "done"
  /\ ret' = center_gram(ToQ(call.gram), call.unbiased)
  /\ steps' = ret'.steps
  /\ UNCHANGED call

CallCka ==
  /\ call.fn = "cka"
  /\ pc = "ready"
  /\ pc' = "done"
  /\ ret' = cka(ToQ(call.gram_x), ToQ(call.gram_y), call.debiased)
  /\ steps' = ret'.steps
  /\ UNCHANGED call

SpecGram == InitGram /\ [][CallCenterGram \/ CallCka]_vars

\* C2: center_gram on a square matrix that is not symmetric within tolerance,
\* with either value of unbiased, raises the symmetry error and returns no
\* matrix, and its argument is left as it was; cka on two square matrices of
\* which one is not symmetric within tolerance raises the same error and
\* returns no score.
NotSymmetricIsFatal ==
  /\ (/\ call.fn = "center_gram"
      /\ pc = "done"
      /\ NotSymmetricWithinTolerance(call.gram))
     => (ret.kind = "raise" /\ ret.error = NotSymmetric /\ ret.value = <<>>)
  /\ (/\ call.fn = "cka"
      /\ pc = "done"
      /\ \/ NotSymmetricWithinTolerance(call.gram_x)
         \/ NotSymmetricWithinTolerance(call.gram_y))
     => (ret.kind = "raise" /\ ret.error = NotSymmetric /\ ret.value = <<>>)

\* cka has run on a symmetric gram_x and a gram_y that is not symmetric
NotSymmetricIsFatalWitness ==
  /\ call.fn = "cka"
  /\ pc = "done"
  /\ IsSymmetric(call.gram_x)
  /\ NotSymmetricWithinTolerance(call.gram_y)
  /\ ret.kind = "raise"

\* C3: center_gram with unbiased=True on a symmetric matrix of N < 3
\* examples, and cka with debiased=True on two such matrices, raise an error
\* and return no matrix and no score.
UnbiasedNeedsThreeExamples ==
  /\ (/\ call.fn = "center_gram"
      /\ pc = "done"
      /\ call.unbiased
      /\ IsSymmetric(call.gram)
      /\ Rows(call.gram) < 3)
     => ret.kind = "raise"
  /\ (/\ call.fn = "cka"
      /\ pc = "done"
      /\ call.debiased
      /\ IsSymmetric(call.gram_x) /\ IsSymmetric(call.gram_y)
      /\ Rows(call.gram_x) < 3 /\ Rows(call.gram_y) < 3)
     => ret.kind = "raise"

\* every row and every column of m sums to zero
RowsAndColumnsSumToZero(m) ==
  /\ \A i \in 1..Rows(m) : QSum(m[i]) = Zero
  /\ \A j \in 1..Cols(m) : ColSums(m)[j] = Zero

\* C6: on a symmetric N x N matrix, center_gram with unbiased=False (N >= 1)
\* and with unbiased=True (N >= 3) returns a symmetric matrix all of whose row
\* sums and column sums are zero; with unbiased=True its diagonal is zero too.
CenteredSumsAreZero ==
  (/\ call.fn = "center_gram"
   /\ pc = "done"
   /\ IsSymmetric(call.gram)
   /\ call.unbiased => Rows(call.gram) >= 3)
  => /\ ret.kind = "return"
     /\ Rows(ret.value) = Rows(call.gram)
     /\ IsSquare(ret.value)
     /\ IsSymmetric(ret.value)
     /\ RowsAndColumnsSumToZero(ret.value)
     /\ call.unbiased => \A i \in 1..Rows(ret.value) : ret.value[i][i] = Zero

\* center_gram with unbiased=True has returned a matrix with a nonzero entry
\* for a symmetric matrix of N >= 4 examples
CenteredSumsAreZeroWitness ==
  /\ call.fn = "center_gram"
  /\ pc = "done"
  /\ call.unbiased
  /\ IsSymmetric(call.gram)
  /\ Rows(call.gram) >= 4
  /\ ret.kind = "return"
  /\ \E i \in 1..Rows(ret.value), j \in 1..Rows(ret.value) : ret.value[i][j] # Zero

\* C7: cka(G, G, debiased=False) on a symmetric G whose centered matrix has a
\* nonzero norm is 1: the inner product of the centered matrix with itself is
\* positive and its square is the product of the two squared normalizations.
SelfSimilarityIsOne ==
  (/\ call.fn = "cka"
   /\ pc = "done"
   /\ ~call.debiased
   /\ call.gram_x = call.gram_y
   /\ IsSymmetric(call.gram_x)
   /\ ret.kind = "return"
   /\ ~QIsZero(ret.value.nx2))
  => /\ Defined(ret.value)
     /\ QPos(ret.value.num)
     /\ QMul(ret.value.num, ret.value.num) = QMul(ret.value.nx2, ret.value.ny2)

\* cka(G, G, debiased=False) has returned for a symmetric G of N >= 3
\* examples whose centered matrix is not zero
SelfSimilarityIsOneWitness ==
  /\ call.fn = "cka"
  /\ pc = "done"
  /\ ~call.debiased
  /\ call.gram_x = call.gram_y
  /\ IsSymmetric(call.gram_x)
  /\ Rows(call.gram_x) >= 3
  /\ ret.kind = "return"
  /\ QPos(ret.value.nx2)

----------------------------------------------------------------------------
(* The tutorial cells: linear CKA from examples and from features          *)

TutMaxN == 4

TutMaxWeight == 3

\* the numbers of features (Dx, Dy) of the two matrices
FeatureShapes == {<<1, 1>>, <<2, 1>>}

\* the entries of v do not increase
NonIncreasing(v) == \A k \in 1..(Len(v) - 1) : v[k] >= v[k + 1]

\* X has one or two features; Y has one, its examples in non-increasing order
InitTutorial ==
  \E n \in 3..TutMaxN, dx \in 1..2, debiased \in BOOLEAN :
    \E vx \in NatVectors(n * dx, TutMaxWeight),
       vy \in {v \in NatVectors(n, TutMaxWeight) : NonIncreasing(v)} :
      /\ call = [fn |-> "tutorial", X |-> Reshape(vx, 0, n, dx),
                 Y |-> Reshape(vy, 0, n, 1), debiased |-> debiased]
      /\ pc = "ready"
      /\ ret = <<>>
      /\ steps = <<>>

\* cka_from_examples = cka(gram_linear(X), gram_linear(Y), debiased) and
\* cka_from_features = feature_space_linear_cka(X, Y, debiased)
TutorialCell ==
  /\ call.fn = "tutorial"
  /\ pc = "ready"
  /\ pc' = "done"
  /\ ret' = [cka_from_examples |->
               cka(gram_linear(ToQ(call.X)), gram_linear(ToQ(call.Y)), call.debiased),
             cka_from_features |->
               feature_space_linear_cka(ToQ(call.X), ToQ(call.Y), call.debiased)]
  /\ steps' = ret'.cka_from_examples.steps \o ret'.cka_from_features.steps
  /\ UNCHANGED call

SpecTutorial == InitTutorial /\ [][TutorialCell]_vars

\* C1: in the tutorial cells with N > 3 examples and either value of
\* debiased, both calls return, the score from the features has nonzero
\* normalizations exactly when the score from the Gram matrices has, and then
\* the two scores are the same number.
EquivalenceLaw ==
  (/\ call.fn = "tutorial"
   /\ pc = "done"
   /\ Rows(call.X) > 3)
  => /\ ret.cka_from_examples.kind = "return"
     /\ ret.cka_from_features.kind = "return"
     /\ Defined(ret.cka_from_examples.value) <=> Defined(ret.cka_from_features.value)
     /\ Defined(ret.cka_from_examples.value)
        => SameScore(ret.cka_from_examples.value, ret.cka_from_features.value)

\* the debiased tutorial cell has run on N > 3 examples and both scores are
\* defined and not zero
EquivalenceLawWitness ==
  /\ call.fn = "tutorial"
  /\ pc = "done"
  /\ call.debiased
  /\ Rows(call.X) > 3
  /\ ret.cka_from_examples.kind = "return"
  /\ ret.cka_from_features.kind = "return"
  /\ Defined(ret.cka_from_examples.value)
  /\ Defined(ret.cka_from_features.value)
  /\ ret.cka_from_features.value.num[1] # 0

\* C11: feature_space_linear_cka with debiased=True on N >= 3 examples
\* returns, and the two values it passes to the square root are finite and
\* not negative; for N = 3 both are exactly 0, so the score it returns is a
\* division by zero and is not defined.
DebiasedRadicandsNonnegative ==
  (/\ call.fn = "tutorial"
   /\ pc = "done"
   /\ call.debiased
   /\ Rows(call.X) >= 3)
  => /\ ret.cka_from_features.kind = "return"
     /\ IsFinite(ret.cka_from_features.value.nx2)
     /\ IsFinite(ret.cka_from_features.value.ny2)
     /\ QLe(Zero, ret.cka_from_features.value.nx2)
     /\ QLe(Zero, ret.cka_from_features.value.ny2)
     /\ Rows(call.X) = 3
        => /\ QIsZero(ret.cka_from_features.value.nx2)
           /\ QIsZero(ret.cka_from_features.value.ny2)
           /\ ~Defined(ret.cka_from_features.value)

\* the debiased call has returned for N = 3 examples whose X and Y are not
\* constant over the examples, with both radicands 0
DebiasedRadicandsNonnegativeWitness ==
  /\ call.fn = "tutorial"
  /\ pc = "done"
  /\ call.debiased
  /\ Rows(call.X) = 3
  /\ \E i \in 1..3 : call.X[i] # call.X[1]
  /\ \E i \in 1..3 : call.Y[i] # call.Y[1]
  /\ ret.cka_from_features.kind = "return"
  /\ QIsZero(ret.cka_from_features.value.nx2)
  /\ QIsZero(ret.cka_from_features.value.ny2)

----------------------------------------------------------------------------
(* Calls of gram_rbf                                                       *)

RbfMaxN == 3

RbfMaxWeight == 3

\* the default threshold 1.0 and the 0.5 of the tutorial
Thresholds == {Q(1), <<1, 2>>}

InitRbf ==
  \E n \in 1..RbfMaxN, d \in 1..2, t \in Thresholds :
    \E v \in NatVectors(n * d, RbfMaxWeight) :
      /\ call = [fn |-> "gram_rbf", x |-> Reshape(v, 0, n, d), threshold |-> t]
      /\ pc = "ready"
      /\ ret = <<>>
      /\ steps = <<>>

CallGramRbf ==
  /\ call.fn = "gram_rbf"
  /\ pc = "ready"
  /\ pc' = "done"
  /\ ret' = gram_rbf(ToQ(call.x), call.threshold)
  /\ steps' = ret'.steps
  /\ UNCHANGED call

SpecRbf == InitRbf /\ [][CallGramRbf]_vars

\* C5: gram_rbf raises an error and returns no Gram matrix for every x whose
\* median squared pairwise distance, over all N * N entries, is 0.
ZeroMedianIsFatal ==
  (/\ call.fn = "gram_rbf"
   /\ pc = "done"
   /\ QIsZero(np_median(SqDistances(ToQ(call.x)))))
  => (ret.kind = "raise" /\ ret.value = <<>>)

----------------------------------------------------------------------------
(* Calls with mismatched shapes                                            *)

ShapeMaxDim == 3

ShapeMaxWeight == 1

\* any two matrices, square or not, of equal size or not
InitShape ==
  \E fn \in {"cka", "feature_space_linear_cka", "cca"}, flag \in BOOLEAN :
    \E rx \in 1..ShapeMaxDim, cx \in 1..ShapeMaxDim,
       ry \in 1..ShapeMaxDim, cy \in 1..ShapeMaxDim :
      \E v \in NatVectors(rx * cx + ry * cy, ShapeMaxWeight) :
        /\ call = IF fn = "cka"
                  THEN [fn |-> fn, gram_x |-> Reshape(v, 0, rx, cx),
                        gram_y |-> Reshape(v, rx * cx, ry, cy), debiased |-> flag]
                  ELSE IF fn = "cca"
                  THEN [fn |-> fn, features_x |-> Reshape(v, 0, rx, cx),
                        features_y |-> Reshape(v, rx * cx, ry, cy)]
                  ELSE [fn |-> fn, features_x |-> Reshape(v, 0, rx, cx),
                        features_y |-> Reshape(v, rx * cx, ry, cy), debiased |-> flag]
        /\ pc = "ready"
        /\ ret = <<>>
        /\ steps = <<>>

CallFeatureSpaceLinearCka ==
  /\ call.fn = "feature_space_linear_cka"
  /\ pc = "ready"
  /\ pc' = "done"
  /\ ret' = feature_space_linear_cka(ToQ(call.features_x), ToQ(call.features_y),
                                     call.debiased)
  /\ steps' = ret'.steps
  /\ UNCHANGED call

CallCca ==
  /\ call.fn = "cca"
  /\ pc = "ready"
  /\ pc' = "done"
  /\ ret' = cca(ToQ(call.features_x), ToQ(call.features_y))
  /\ steps' = ret'.steps
  /\ UNCHANGED call

SpecShape == InitShape /\ [][CallCka \/ CallFeatureSpaceLinearCka \/ CallCca]_vars

\* no centering, mean, QR, product or norm step was completed
NoComputationStep == \A k \in 1..Len(steps) : steps[k] = "allclose"

\* C4: cka on Gram matrices of different sizes or on a Gram matrix that is
\* not square, and feature_space_linear_cka and cca on feature matrices with
\* different numbers of rows, raise a shape error having completed no
\* centering, mean, QR or product step, and return no score.
ShapeMismatchFailsFirst ==
  /\ (/\ call.fn = "cka"
      /\ pc = "done"
      /\ \/ ~IsSquare(call.gram_x)
         \/ ~IsSquare(call.gram_y)
         \/ Rows(call.gram_x) # Rows(call.gram_y))
     => (ret.kind = "raise" /\ ret.error = ShapeError /\ NoComputationStep)
  /\ (/\ call.fn \in {"feature_space_linear_cka", "cca"}
      /\ pc = "done"
      /\ Rows(call.features_x) # Rows(call.features_y))
     => (ret.kind = "raise" /\ ret.error = ShapeError /\ NoComputationStep)

----------------------------------------------------------------------------
(* The invariance cell                                                     *)

InvMaxN == 4

InvMaxWeight == 3

CcaMaxN == 3

CcaMaxWeight == 4

\* orthogonal 2 x 2 matrices: the signed permutations, a rotation and a reflection
\* with entries 3/5 and 4/5
Orthogonal2 ==
  {<<<<Q(a), Zero>>, <<Zero, Q(b)>>>> : a \in {-1, 1}, b \in {-1, 1}}
  \cup {<<<<Zero, Q(a)>>, <<Q(b), Zero>>>> : a \in {-1, 1}, b \in {-1, 1}}
  \cup {<<<<<<3, 5>>, <<4, 5>>>>, <<<<-4, 5>>, <<3, 5>>>>>>,
        <<<<<<3, 5>>, <<4, 5>>>>, <<<<4, 5>>, <<-3, 5>>>>>>}

\* invertible 2 x 2 matrices: those with entries 0 and 1 (the identity, the
\* swap, the shears and their products with the swap), a scaling of one
\* column and a matrix with a negative entry
Invertible2 ==
  {ToQ(Reshape(v, 0, 2, 2)) : v \in {w \in [1..4 -> {0, 1}] : w[1] * w[4] # w[2] * w[3]}}
  \cup {ToQ(<<<<2, 0>>, <<0, 1>>>>), ToQ(<<<<1, -1>>, <<2, 1>>>>)}

\* positive scalars
Scalars == {Q(2), Q(3), <<1, 2>>, <<3, 2>>}

\* X * c
Scale(m, c) == Vec([i \in 1..Rows(m) |-> Vec([j \in 1..Cols(m) |-> QMul(m[i][j], c)])])

InitOrthogonal ==
  \E n \in 3..InvMaxN, transform \in Orthogonal2 :
    \E v \in NatVectors(n * 3, InvMaxWeight) :
      /\ call = [fn |-> "cka_orthogonal", X |-> Reshape(v, 0, n, 2),
                 Y |-> Reshape(v, n * 2, n, 1), transform |-> transform]
      /\ pc = "ready"
      /\ ret = <<>>
      /\ steps = <<>>

InitScaling ==
  \E n \in 3..InvMaxN, d \in FeatureShapes, c \in Scalars :
    \E v \in NatVectors(n * (d[1] + d[2]), InvMaxWeight) :
      /\ call = [fn |-> "cka_scaling", X |-> Reshape(v, 0, n, d[1]),
                 Y |-> Reshape(v, n * d[1], n, d[2]), scale |-> c]
      /\ pc = "ready"
      /\ ret = <<>>
      /\ steps = <<>>

\* qr is modelled for matrices of full column rank: the cell's X and Y are such
InitCcaInvariance ==
  \E n \in 3..CcaMaxN, dy \in 1..2 :
    \E v \in NatVectors(n * (2 + dy), CcaMaxWeight) :
      /\ FullColumnRank(ToQ(Reshape(v, 0, n, 2)))
      /\ FullColumnRank(ToQ(Reshape(v, n * 2, n, dy)))
      /\ \E transform \in Invertible2 :
           call = [fn |-> "cca_invariance", X |-> Reshape(v, 0, n, 2),
                   Y |-> Reshape(v, n * 2, n, dy), transform |-> transform]
      /\ pc = "ready"
      /\ ret = <<>>
      /\ steps = <<>>

\* feature_space_linear_cka(X, Y) and feature_space_linear_cka(X.dot(transform), Y)
OrthogonalCell ==
  /\ call.fn = "cka_orthogonal"
  /\ pc = "ready"
  /\ pc' = "done"
  /\ ret' = [plain |-> feature_space_linear_cka(ToQ(call.X), ToQ(call.Y), FALSE),
             transformed |->
               feature_space_linear_cka(MatMul(ToQ(call.X), call.transform),
                                        ToQ(call.Y), FALSE)]
  /\ steps' = ret'.plain.steps \o ret'.transformed.steps
  /\ UNCHANGED call

\* feature_space_linear_cka(X, Y) and feature_space_linear_cka(X * c, Y)
ScalingCell ==
  /\ call.fn = "cka_scaling"
  /\ pc = "ready"
  /\ pc' = "done"
  /\ ret' = [plain |-> feature_space_linear_cka(ToQ(call.X), ToQ(call.Y), FALSE),
             transformed |->
               feature_space_linear_cka(Scale(ToQ(call.X), call.scale),
                                        ToQ(call.Y), FALSE)]
  /\ steps' = ret'.plain.steps \o ret'.transformed.steps
  /\ UNCHANGED call

\* cca(X, Y) and cca(X.dot(transform), Y)
CcaInvarianceCell ==
  /\ call.fn = "cca_invariance"
  /\ pc = "ready"
  /\ pc' = "done"
  /\ ret' = [plain |-> cca(ToQ(call.X), ToQ(call.Y)),
             transformed |-> cca(MatMul(ToQ(call.X), call.transform), ToQ(call.Y))]
  /\ steps' = ret'.plain.steps \o ret'.transformed.steps
  /\ UNCHANGED call

SpecOrthogonal == InitOrthogonal /\ [][OrthogonalCell]_vars

SpecScaling == InitScaling /\ [][ScalingCell]_vars

SpecCcaInvariance == InitCcaInvariance /\ [][CcaInvarianceCell]_vars

\* both calls of a cell returned a score with nonzero normalizations
BothDefined ==
  /\ ret.plain.kind = "return"
  /\ ret.transformed.kind = "return"
  /\ Defined(ret.plain.value)
  /\ Defined(ret.transformed.value)

\* C8: for an orthogonal D x D matrix Q, feature_space_linear_cka(X.Q, Y) is
\* the same score as feature_space_linear_cka(X, Y) whenever the scores are defined.
OrthogonalInvariance ==
  (call.fn = "cka_orthogonal" /\ pc = "done" /\ BothDefined)
  => SameScore(ret.plain.value, ret.transformed.value)

\* the cell has run with the rotation by (3/5, 4/5) on an X whose two columns
\* differ, and the score is defined and not zero
OrthogonalInvarianceWitness ==
  /\ call.fn = "cka_orthogonal"
  /\ pc = "done"
  /\ call.transform[1][1] = <<3, 5>>
  /\ \E i \in 1..Rows(call.X) : call.X[i][1] # call.X[i][2]
  /\ BothDefined
  /\ ret.plain.value.num[1] # 0

\* C9: for a positive scalar c, feature_space_linear_cka(c.X, Y) is the same
\* score as feature_space_linear_cka(X, Y) whenever the scores are defined.
ScaleInvariance ==
  (call.fn = "cka_scaling" /\ pc = "done" /\ BothDefined)
  => SameScore(ret.plain.value, ret.transformed.value)

\* the cell has run with c = 3/2 and the score is defined and not zero
ScaleInvarianceWitness ==
  /\ call.fn = "cka_scaling"
  /\ pc = "done"
  /\ call.scale = <<3, 2>>
  /\ BothDefined
  /\ ret.plain.value.num[1] # 0

\* C10: for X of full column rank and an invertible M, cca(X.M, Y) = cca(X, Y).
CcaInvariance ==
  (/\ call.fn = "cca_invariance"
   /\ pc = "done"
   /\ FullColumnRank(ToQ(call.X))
   /\ FullColumnRank(ToQ(call.Y)))
  => /\ ret.plain.kind = "return"
     /\ ret.transformed.kind = "return"
     /\ IsFinite(ret.plain.value)
     /\ ret.transformed.value = ret.plain.value

\* the cell has run with a transform that is not orthogonal (its rows are not
\* orthogonal to each other) and the correlation is strictly between 0 and 1
CcaInvarianceWitness ==
  /\ call.fn = "cca_invariance"
  /\ pc = "done"
  /\ ~QIsZero(Dot(call.transform[1], call.transform[2]))
  /\ ret.plain.kind = "return"
  /\ QPos(ret.plain.value)
  /\ ret.plain.value # Q(1)

====
